---- MODULE Spec2Model ----
(***************************************************************************)
(* The checklist execution engine of SmoothOperator: Orchestrator          *)
(* (orchestrator.py) with the BlockerResolver (auto_blocker_resolver.py)   *)
(* and the TransitionValidator (validation_system/core.py).                *)
(*                                                                         *)
(* One behaviour is a sequence of invocations of main(): construct the     *)
(* Orchestrator, load_checklist, execute_checklist.  An invocation ends by *)
(* returning or by being killed; the status file <name>_status.json is the *)
(* only state that survives it.                                            *)
(*                                                                         *)
(* Phases and tasks are named by their position in the checklist (phase    *)
(* names and task descriptions are unique).  The keys of the checklist     *)
(* (which phases, which tasks) are fixed by the checklist file; the body   *)
(* of a phase or task (command, validation, blockers, success_gate) is     *)
(* read when the loop of execute_checklist reaches it, which happens once  *)
(* per invocation.                                                         *)
(*                                                                         *)
(* Specifications:                                                         *)
(*   Spec          invocations of main on a well-formed checklist, status  *)
(*                 writes that succeed or are cut by a kill                *)
(*   SpecAnyFile   the same, on checklist files that may lack keys         *)
(*   SpecEdited    the same, the checklist growing between invocations     *)
(*   SpecFaulty    one invocation in which status writes may fail          *)
(*   SpecLive      one invocation, with the fairness of a running process  *)
(*   SpecResolver  BlockerResolver.resolve_blockers called by itself       *)
(*   SpecValidator TransitionValidator.validate_task called by itself      *)
(*   SpecLoader    load_checklist and _save_status called on one object    *)
(*   SpecCleanup   the cleanup of a task's artifacts called by itself      *)
(***************************************************************************)
EXTENDS Integers, Sequences, FiniteSets, TLC

VARIABLES
    file,               \* the checklist file: number of tasks of each phase
    current_checklist,  \* Orchestrator.current_checklist
    status,             \* Orchestrator.status, the in-memory status document
    disk,               \* the status file <checklist_name>_status.json
    resumed,            \* the phases load_checklist found completed in the status file
    pc,                 \* where the invocation stands
    i,                  \* index of `phase` in the loop over the phases
    j,                  \* index of `task` in the loop over the tasks
    gate,               \* phase.get("success_gate") of the current phase
    task,               \* the current task of the loop
    proc,               \* the last external process of the current task
    metric,             \* value reported for the gate's metric in this phase
    ret,                \* return value of execute_checklist / main
    runs,               \* number of invocations so far
    unresolved,         \* the list resolve_blockers returned for the current task
    form,               \* the checklist file: which of its keys are there
    faulty,             \* whether writing the status file can fail
    call                \* a call of BlockerResolver.resolve_blockers or of
                        \* TransitionValidator.validate_task by itself, or an
                        \* Orchestrator object used through its methods

vars == <<file, current_checklist, status, disk, resumed, pc, i, j, gate,
          task, proc, metric, ret, runs, unresolved, form, faulty, call>>

---------------------------------------------------------------------------
(* Bounds of the model *)

MaxPhases == 2      \* phases of a checklist
MaxTasks == 2       \* tasks of a checklist, over all its phases
MaxRuns == 2        \* invocations of main in one behaviour
MaxBlockers == 2    \* blockers in a list given to resolve_blockers by itself
MaxBytes == 2       \* bytes of an artifact file
MaxAgeDays == 8     \* age of an artifact file, in days

---------------------------------------------------------------------------
(* Status documents *)

NOT_STARTED == "not_started"
IN_PROGRESS == "in_progress"
COMPLETED == "completed"
FAILED == "failed"
BLOCKED == "blocked"

Terminal == {COMPLETED, FAILED, BLOCKED}

\* {} : the status of a fresh Orchestrator
EmptyStatus == [p \in {} |-> 0]

\* d[k] = v, adding the key when it is missing
Put(d, k, v) == [x \in (DOMAIN d) \cup {k} |-> IF x = k THEN v ELSE d[x]]

\* a document that names the phases and none of their tasks
InitialStatusWithoutTasks(phases) ==
    [p \in 1..Len(phases) |-> [status |-> NOT_STARTED, tasks |-> EmptyStatus]]

\* the document load_checklist builds for a checklist without status file
InitialStatus(phases) ==
    [p \in 1..Len(phases) |->
        [status |-> NOT_STARTED,
         tasks  |-> [t \in 1..phases[p] |-> NOT_STARTED]]]

\* self.status[phase_name]["status"] = s, after creating a missing entry
SetPhaseStatus(doc, p, s) ==
    LET d == IF p \in DOMAIN doc THEN doc
             ELSE Put(doc, p, [status |-> NOT_STARTED, tasks |-> EmptyStatus])
    IN  [d EXCEPT ![p].status = s]

\* an assignment that reaches only the tasks the document already names
SetTaskStatusExisting(doc, p, t, s) ==
    IF t \in DOMAIN doc[p].tasks THEN [doc EXCEPT ![p].tasks[t] = s] ELSE doc

\* self.status[phase_name]["tasks"][task_desc] = s
SetTaskStatus(doc, p, t, s) == [doc EXCEPT ![p].tasks = Put(@, t, s)]

\* what display_status reads: a missing entry shows as not_started
PhaseStatus(doc, p) == IF p \in DOMAIN doc THEN doc[p].status ELSE NOT_STARTED

TaskStatus(doc, p, t) ==
    IF p \in DOMAIN doc /\ t \in DOMAIN doc[p].tasks
    THEN doc[p].tasks[t] ELSE NOT_STARTED

\* the phases a document shows completed together with all their tasks
CompletedPhases(doc) ==
    {p \in DOMAIN doc :
        /\ doc[p].status = COMPLETED
        /\ \A t \in DOMAIN doc[p].tasks : doc[p].tasks[t] = COMPLETED}

---------------------------------------------------------------------------
(* The status file *)

NoFile == [kind |-> "none", doc |-> EmptyStatus]
Partial == [kind |-> "partial", doc |-> EmptyStatus]
Document(doc) == [kind |-> "doc", doc |-> doc]

\* How a call of _save_status ends: "ok" the document is written; "killed"
\* the process dies between open(status_path, 'w'), which truncates the
\* file, and the end of json.dump.
SaveOutcomes == {"ok", "killed"}

\* The ways a write can fail, where the file system lets it: open raises
\* (the file is not writable), or json.dump raises after open truncated the
\* file (the disk is full).  _save_status catches both and prints a warning.
WriteFaults == {"open_failed", "dump_failed"}

Outcomes == IF faulty THEN SaveOutcomes \cup WriteFaults ELSE SaveOutcomes

\* a _save_status that returns without writing
save_status_skipped(old, doc, o) == old

\* the status file, old before the call, after _save_status wrote doc with
\* outcome o
save_status(old, doc, o) ==
    CASE o = "ok"          -> Document(doc)
      [] o = "open_failed" -> old
      [] OTHER             -> Partial

---------------------------------------------------------------------------
(* BlockerResolver *)

\* A blocker is [type, resolution]; the resolution descriptor says whether a
\* diagnostics command is declared, whether lmstudio_prompt is there
\* ("absent": no such key) and whether required_experts is absent, the
\* empty list ("empty") or a list of experts ("nonempty").
Resolution(d, p, e) == [diagnostics |-> d, lmstudio_prompt |-> p, required_experts |-> e]

NoResolution == Resolution(FALSE, "absent", "absent")

\* blocker.get("resolution", {}): a blocker without descriptor is read as
\* one whose descriptor has no key
ResolutionOf(blocker) ==
    IF "resolution" \in DOMAIN blocker THEN blocker.resolution ELSE NoResolution

\* How the diagnostics command ends: subprocess.run raises, or it exits with
\* returncode and a stdout that is a JSON object whose status is "success"
\* ("success"), a JSON object with another status ("failure"), a JSON object
\* without status ("nostatus"), another JSON value ("nonobject"), or no JSON
\* at all ("notjson").
StdoutForms == {"success", "failure", "nostatus", "nonobject", "notjson"}

\* How LMStudioClient.generate_prompt ends.  It returns the assistant's
\* text: one that has the word "resolved" in some letter case ("resolved"),
\* one that has these letters only inside another word, as in "still
\* unresolved" ("unresolved"), or another one ("other").  After a
\* RequestException it returns "Error generating prompt: " followed by the
\* text of the exception, which names the URL and, for an HTTP error, the
\* reason phrase the server sent: a text without the letters "resolved"
\* ("error") or with them ("error_resolved").  Or the call, or the use of
\* its result, raises: a reply without the expected shape, such as an empty
\* choices list or a null message or content ("raise").
AssistantOutcomes ==
    {"resolved", "unresolved", "other", "error", "error_resolved", "raise"}

\* the outcomes in which the assistant was not reached or its reply could
\* not be used
AssistantFailures == {"error", "error_resolved", "raise"}

\* "resolved" in response.lower()
contains_resolved(a) == a \in {"resolved", "unresolved", "error_resolved"}

\* a check that takes any declared required_experts list, empty or not, for
\* one that needs people
check_if_resolved_declared(blocker, d, a) ==
    LET r == ResolutionOf(blocker)
        diagnosticsFailed ==
            /\ r.diagnostics
            /\ \/ d.raised
               \/ d.returncode # 0
               \/ d.stdout \in {"failure", "nostatus", "nonobject"}
    IN  IF diagnosticsFailed THEN "false"
        ELSE IF r.lmstudio_prompt = "text"
             THEN IF a = "raise" THEN "raise"
                  ELSE IF contains_resolved(a) THEN "true" ELSE "false"
        ELSE IF r.required_experts # "absent" THEN "false"
        ELSE "true"

\* a check that takes stdout that is no JSON for a failed diagnostic
check_if_resolved_strict(blocker, d, a) ==
    LET r == ResolutionOf(blocker)
        diagnosticsFailed ==
            /\ r.diagnostics
            /\ \/ d.raised
               \/ d.returncode # 0
               \/ d.stdout \in {"failure", "nostatus", "nonobject", "notjson"}
    IN  IF diagnosticsFailed THEN "false"
        ELSE IF r.lmstudio_prompt = "text"
             THEN IF a = "raise" THEN "raise"
                  ELSE IF contains_resolved(a) THEN "true" ELSE "false"
        ELSE IF r.required_experts = "nonempty" THEN "false"
        ELSE "true"

\* _check_if_resolved: "true", "false", or "raise" when an exception escapes
check_if_resolved(blocker, d, a) ==
    LET r == ResolutionOf(blocker)
        diagnosticsFailed ==
            /\ r.diagnostics
            /\ \/ d.raised
               \/ d.returncode # 0
               \/ d.stdout \in {"failure", "nostatus", "nonobject"}
    IN  IF diagnosticsFailed THEN "false"
        ELSE IF r.lmstudio_prompt = "text"
             THEN IF a = "raise" THEN "raise"
                  ELSE IF contains_resolved(a) THEN "true" ELSE "false"
        ELSE IF r.required_experts = "nonempty" THEN "false"
        ELSE "true"

\* whether _check_if_resolved calls ai_client.generate_prompt: it does when
\* the diagnostics, if any, did not make it return and the prompt is there
assistant_invoked(blocker, d) ==
    LET r == ResolutionOf(blocker)
    IN  /\ r.lmstudio_prompt = "text"
        /\ ~(/\ r.diagnostics
              /\ \/ d.raised
                 \/ d.returncode # 0
                 \/ d.stdout \in {"failure", "nostatus", "nonobject"})

\* a list built by putting each unresolved blocker in front
RECURSIVE UnresolvedInFront(_, _, _, _)
UnresolvedInFront(blockers, ds, as, n) ==
    IF n = 0 THEN <<>>
    ELSE LET rest == UnresolvedInFront(blockers, ds, as, n - 1)
         IN  IF check_if_resolved(blockers[n], ds[n], as[n]) = "false"
             THEN <<blockers[n]>> \o rest ELSE rest

\* those of the first n blockers that are not resolved, in order
RECURSIVE Unresolved(_, _, _, _)
Unresolved(blockers, ds, as, n) ==
    IF n = 0 THEN <<>>
    ELSE LET rest == Unresolved(blockers, ds, as, n - 1)
         IN  IF check_if_resolved(blockers[n], ds[n], as[n]) = "false"
             THEN Append(rest, blockers[n]) ELSE rest

\* resolve_blockers(blockers), where ds[k] and as[k] say how the diagnostics
\* and the assistant call of blocker k end: the unresolved blockers, and
\* whether an exception escaped the call
resolve_blockers(blockers, ds, as) ==
    [raised     |-> \E k \in 1..Len(blockers) :
                        check_if_resolved(blockers[k], ds[k], as[k]) = "raise",
     unresolved |-> Unresolved(blockers, ds, as, Len(blockers))]

\* the blockers for which the assistant is called before resolve_blockers
\* returns or raises
Asked(blockers, ds, as) ==
    {k \in 1..Len(blockers) :
        /\ assistant_invoked(blockers[k], ds[k])
        /\ \A m \in 1..(k - 1) :
               check_if_resolved(blockers[m], ds[m], as[m]) # "raise"}

\* A call of resolve_blockers by itself: its argument, how the diagnostics
\* and the assistant calls ended, and its result ("pending" before the
\* call, then "returned" with the list returned, or "raised").
Call(blockers, ds, as, result, list, asked) ==
    [blockers |-> blockers, diagnostics |-> ds, assistant |-> as,
     result |-> result, unresolved |-> list, asked |-> asked]

NoCall == Call(<<>>, <<>>, <<>>, "none", <<>>, {})

Pending(blockers) == Call(blockers, <<>>, <<>>, "pending", <<>>, {})

---------------------------------------------------------------------------
(* External processes *)

\* what subprocess.run gave: raised (the call itself failed), else the exit
\* code and the form of stdout; files: the artifacts present under
\* artifacts_dir when the process ended (name -> content); stderr: what
\* kind of text the process wrote to stderr, or the text of the exception
\* when the call raised ("": none that is read)
Run(kind, raised, rc, out, files) ==
    [kind |-> kind, raised |-> raised, returncode |-> rc, stdout |-> out,
     files |-> files, stderr |-> ""]

NoFiles == [n \in {} |-> ""]

NoProc == Run("none", FALSE, 0, "notjson", NoFiles)

ExitCodes == {0, 1}

DiagnosticRuns ==
    {Run("diagnostics", TRUE, 1, "notjson", NoFiles)} \cup
    {Run("diagnostics", FALSE, rc, out, NoFiles) : rc \in ExitCodes, out \in StdoutForms}

CommandRuns ==
    {Run("command", TRUE, 1, "notjson", NoFiles)} \cup
    {Run("command", FALSE, rc, "notjson", NoFiles) : rc \in ExitCodes}

---------------------------------------------------------------------------
(* TransitionValidator *)

SUCCESS == "success"
FAILURE == "failure"
VBLOCKED == "blocked"
SKIPPED == "skipped"

\* error_message is a sequence of pieces of text, <<>> for None
ValidationResult(s, artifacts, msg) ==
    [status |-> s, artifacts |-> artifacts, error_message |-> msg]

NoMessage == <<>>

\* The bytes of a file: an ASCII letter, carriage return, line feed, and a
\* byte that no UTF-8 text has.
Bytes == {"a", "CR", "LF", "FF"}

\* the contents of an artifact file
Contents == UNION {[1..n -> Bytes] : n \in 0..MaxBytes}

\* the newline translation of a file opened with open(path, 'r'): "\r\n"
\* and "\r" are read as "\n"
RECURSIVE universal_newlines(_)
universal_newlines(s) ==
    IF s = <<>> THEN <<>>
    ELSE IF Head(s) = "CR"
         THEN IF Len(s) >= 2 /\ s[2] = "LF"
              THEN <<"LF">> \o universal_newlines(Tail(Tail(s)))
              ELSE <<"LF">> \o universal_newlines(Tail(s))
    ELSE <<Head(s)>> \o universal_newlines(Tail(s))

\* f.read() of a file opened in text mode raises UnicodeDecodeError on
\* bytes that are no text
read_raises(content) == \E k \in 1..Len(content) : content[k] = "FF"

\* f.read() of a file opened with open(path, 'r'), when it does not raise
read(content) == universal_newlines(content)

\* index of the first declared artifact at which the loop stops: one that
\* is not under artifacts_dir or one whose read raises; Len + 1 when all
\* are read
FirstMissing(expected, files) ==
    LET stops == {k \in 1..Len(expected) :
                     \/ expected[k] \notin DOMAIN files
                     \/ read_raises(files[expected[k]])}
    IN  IF stops = {} THEN Len(expected) + 1
        ELSE CHOOSE k \in stops : \A m \in stops : k <= m

\* the artifacts read before index n
Collected(expected, files, n) ==
    [a \in {expected[k] : k \in 1..(n - 1)} |-> read(files[a])]

\* a validator that goes on whatever the script's return code
script_failed_never(r) == FALSE

\* the return code that makes validate_task give up on the script
script_failed(r) == r.returncode # 0

\* a validator for which every stdout is a document
loads_raises_never(r) == FALSE

\* json.loads(result.stdout) raises JSONDecodeError
loads_raises(r) == r.stdout = "notjson"

\* the result of a task without validation
no_validation_result == ValidationResult(SUCCESS, NoFiles, NoMessage)

\* validate_task(task, phase_name) when the script run ends as r
validate_task(t, r) ==
    IF ~t.validation.present THEN no_validation_result
    ELSE IF r.raised
         THEN ValidationResult(FAILURE, NoFiles, <<"Validation error: ", r.stderr>>)
    ELSE IF script_failed(r)
         THEN ValidationResult(FAILURE, NoFiles, <<"Validation script failed: ", r.stderr>>)
    ELSE IF loads_raises(r)
         THEN ValidationResult(FAILURE, NoFiles,
                               <<"Invalid validation script output format">>)
    ELSE IF r.stdout = "nonobject"
         THEN ValidationResult(FAILURE, NoFiles, <<"Validation error: ", "no attribute get">>)
    ELSE LET expected == t.validation.artifacts
             n == FirstMissing(expected, r.files)
             artifacts == Collected(expected, r.files, n)
         IN  IF n <= Len(expected)
             THEN IF expected[n] \notin DOMAIN r.files
                  THEN ValidationResult(FAILURE, artifacts,
                                        <<"Missing artifact: ", expected[n]>>)
                  ELSE ValidationResult(FAILURE, NoFiles,
                                        <<"Validation error: ", "cannot decode">>)
             ELSE IF r.stdout = "success"
                  THEN ValidationResult(SUCCESS, artifacts, NoMessage)
             ELSE IF r.stdout = "failure_message"
                  THEN ValidationResult(FAILURE, artifacts, <<"error_message of the output">>)
                  ELSE ValidationResult(FAILURE, artifacts, <<"Validation failed">>)

\* whether validate_task calls subprocess.run
runs_script(t) == t.validation.present

\* whether validate_task hands stdout to json.loads
parses_stdout(t, r) == t.validation.present /\ ~r.raised /\ ~script_failed(r)

\* the declared artifacts whose path validate_task tests for existence
looked_up(t, r) ==
    IF parses_stdout(t, r) /\ ~loads_raises(r) /\ r.stdout # "nonobject"
    THEN LET expected == t.validation.artifacts
             n == FirstMissing(expected, r.files)
         IN  {expected[k] : k \in {m \in 1..Len(expected) : m <= n}}
    ELSE {}

---------------------------------------------------------------------------
(* Checklists *)

\* the checklist files: for each phase, the number of its tasks
RECURSIVE Sum(_)
Sum(s) == IF Len(s) = 0 THEN 0 ELSE Head(s) + Sum(Tail(s))

Shapes == {s \in UNION {[1..n -> 0..MaxTasks] : n \in 0..MaxPhases} : Sum(s) <= MaxTasks}

\* The keys of the checklist file.  WellFormed: {"checklist": {"phases":
\* [...]}} and every phase has a "tasks" list; NoChecklistKey, NoPhasesKey:
\* that key is missing; NoTasksKey: the phases that show no task have no
\* "tasks" key at all.
WellFormed == "wellformed"
NoChecklistKey == "nochecklist"
NoPhasesKey == "nophases"
NoTasksKey == "notasks"

\* the forms whose file passes the checks of load_checklist
Accepted == {WellFormed, NoTasksKey}

None == [loaded |-> FALSE, phases |-> <<>>]
Checklist(phases) == [loaded |-> TRUE, phases |-> phases]

NoGate == [present |-> FALSE, metric |-> "", min_value |-> 0]
Gate(m, v) == [present |-> TRUE, metric |-> m, min_value |-> v]
Gates == {NoGate, Gate("test_coverage", 80)}

\* the value the validations of the phase report for the gate's metric
NoMetric == [reported |-> FALSE, value |-> 0]
Metric(v) == [reported |-> TRUE, value |-> v]
Metrics == {NoMetric, Metric(75), Metric(85)}

Blocker(type, resolution) == [type |-> type, resolution |-> resolution]
DiagnosticsBlocker == Blocker("TestBlocker", Resolution(TRUE, "absent", "absent"))
ExpertsBlocker == Blocker("TestBlocker", Resolution(FALSE, "absent", "nonempty"))
PromptBlocker == Blocker("TestBlocker", Resolution(FALSE, "text", "absent"))
BlockerLists == {<<>>, <<DiagnosticsBlocker>>, <<ExpertsBlocker>>, <<PromptBlocker>>}

\* the resolution descriptors: any of the three keys, there or not
Resolutions ==
    {Resolution(d, p, e) : d \in BOOLEAN, p \in {"absent", "text"},
                           e \in {"absent", "nonempty"}}

Blockers == {Blocker("TestBlocker", r) : r \in Resolutions}

\* a blocker without resolution descriptor
BareBlocker == [type |-> "TestBlocker"]

\* blockers whose required_experts is the empty list, and the bare one
OtherBlockers ==
    {Blocker("TestBlocker", Resolution(d, p, "empty")) :
        d \in BOOLEAN, p \in {"absent", "text"}} \cup {BareBlocker}

\* the arguments of resolve_blockers
BlockerSeqs ==
    UNION {[1..n -> Blockers] : n \in 0..MaxBlockers} \cup
    {<<b>> : b \in OtherBlockers}

NoValidation == [present |-> FALSE, artifacts |-> <<>>]
Validation(artifacts) == [present |-> TRUE, artifacts |-> artifacts]
Validations == {NoValidation, Validation(<<"test.txt">>)}

Task(blockers, command, validation) ==
    [blockers |-> blockers, command |-> command, validation |-> validation]
NoTask == Task(<<>>, FALSE, NoValidation)
Tasks == {Task(b, c, v) : b \in BlockerLists, c \in BOOLEAN, v \in Validations}

\* the artifact directory when a validation script ends
ArtifactDirs == {NoFiles, [n \in {"test.txt"} |-> <<"a">>]}

\* (what a script that exits non-zero printed and wrote is read by nobody)
ValidationRuns ==
    {Run("validation", TRUE, 1, "notjson", NoFiles),
     Run("validation", FALSE, 1, "notjson", NoFiles)} \cup
    {Run("validation", FALSE, 0, out, f) : out \in StdoutForms, f \in ArtifactDirs}

\* the tasks given to validate_task by itself
ValidatorTasks ==
    {Task(<<>>, FALSE, v) :
        v \in {NoValidation, Validation(<<>>), Validation(<<"test.txt">>),
               Validation(<<"test.txt", "metrics.json">>)}}

\* the directory d with file n of content c
WithFile(d, n, c) == [x \in DOMAIN d \cup {n} |-> IF x = n THEN c ELSE d[x]]

\* artifacts_dir when the script ends: test.txt is not there or has some
\* content, metrics.json is there or not
RootDirs ==
    LET tests == {NoFiles} \cup {WithFile(NoFiles, "test.txt", c) : c \in Contents}
    IN  tests \cup {WithFile(d, "metrics.json", <<"a">>) : d \in tests}

\* artifacts_dir/<phase_name>/<description> when the script ends
TaskDirs ==
    {NoFiles,
     WithFile(NoFiles, "test.txt", <<"a">>),
     WithFile(WithFile(NoFiles, "test.txt", <<"a">>), "metrics.json", <<"a">>)}

\* stdout of a validation script: as StdoutForms, and a JSON object with a
\* status that is not "success" and an error_message ("failure_message")
ValidationStdoutForms == StdoutForms \cup {"failure_message"}

\* the run of subprocess.run(["python", script]): it raises when there is no
\* python to run; python exits with 2 and a message on stderr when the
\* script file is not there; else the script runs and ends in some way
ScriptRuns(script_exists) ==
    {[Run("validation", TRUE, 1, "notjson", NoFiles)
        EXCEPT !.stderr = "[Errno 2] No such file or directory: 'python'"]} \cup
    IF ~script_exists
    THEN {[Run("validation", FALSE, 2, "notjson", NoFiles)
            EXCEPT !.stderr = "can't open file: [Errno 2] No such file or directory"]}
    ELSE {Run("validation", FALSE, 0, out, NoFiles) : out \in ValidationStdoutForms} \cup
         {[Run("validation", FALSE, 1, out, NoFiles) EXCEPT !.stderr = e] :
             out \in ValidationStdoutForms, e \in {"", "config not found"}}

\* return values: <<>> while execute_checklist has not returned
NoReturn == <<>>
Return(v) == <<v>>

---------------------------------------------------------------------------
(* Orchestrator *)

\* the memory of a process that does not exist (yet, or any more)
Cleared ==
    /\ current_checklist' = None
    /\ status' = EmptyStatus
    /\ resumed' = {}
    /\ i' = 0
    /\ j' = 0
    /\ gate' = NoGate
    /\ task' = NoTask
    /\ proc' = NoProc
    /\ metric' = NoMetric
    /\ ret' = NoReturn
    /\ unresolved' = <<>>

\* a save whose failure takes the assignment back
CommitOrRollBack(doc, next) ==
    \E o \in Outcomes :
        /\ disk' = save_status(disk, doc, o)
        /\ IF o = "killed"
           THEN /\ pc' = "killed"
                /\ Cleared
           ELSE /\ status' = IF o \in WriteFaults THEN status ELSE doc
                /\ next

\* self.status = doc; self._save_status(); then continue as `next` says,
\* unless the process is killed while the file is being written
Commit(doc, next) ==
    \E o \in Outcomes :
        /\ disk' = save_status(disk, doc, o)
        /\ IF o = "killed"
           THEN /\ pc' = "killed"
                /\ Cleared
           ELSE /\ status' = doc
                /\ next

\* a first invocation: the Orchestrator is constructed, no status file yet
Constructed ==
    /\ current_checklist = None
    /\ status = EmptyStatus
    /\ disk = NoFile
    /\ resumed = {}
    /\ pc = "constructed"
    /\ i = 0
    /\ j = 0
    /\ gate = NoGate
    /\ task = NoTask
    /\ proc = NoProc
    /\ metric = NoMetric
    /\ ret = NoReturn
    /\ runs = 1
    /\ unresolved = <<>>

\* the checklist files, well-formed or not, as <<form, tasks per phase>>
Files ==
    {<<WellFormed, s>> : s \in Shapes} \cup
    {<<NoChecklistKey, <<>>>>, <<NoPhasesKey, <<>>>>} \cup
    {<<NoTasksKey, s>> : s \in {x \in Shapes : \E p \in 1..Len(x) : x[p] = 0}}

Init ==
    /\ file \in Shapes
    /\ form = WellFormed
    /\ faulty = FALSE
    /\ call = NoCall
    /\ Constructed

\* the status file is on a file system where writes can fail
InitFaulty ==
    /\ file \in Shapes
    /\ form = WellFormed
    /\ faulty = TRUE
    /\ call = NoCall
    /\ Constructed

\* main is given any checklist file, well-formed or not
InitAnyFile ==
    /\ \E f \in Files : form = f[1] /\ file = f[2]
    /\ faulty = FALSE
    /\ call = NoCall
    /\ Constructed

\* load_checklist, called by main
LoadChecklist ==
    /\ pc = "constructed"
    /\ UNCHANGED <<file, runs, form, faulty, call>>
    /\ CASE form \notin Accepted ->
              \* ValueError; main prints the error and returns 1
              /\ pc' = "returned"
              /\ ret' = Return(1)
              /\ UNCHANGED <<current_checklist, status, disk, resumed, i, j, gate,
                             task, proc, metric, unresolved>>
         [] form \in Accepted /\ disk.kind = "doc" ->
              /\ current_checklist' = Checklist(file)
              /\ resumed' = CompletedPhases(disk.doc)
              /\ status' = disk.doc
              /\ pc' = "loaded"
              /\ UNCHANGED <<disk, i, j, gate, task, proc, metric, ret, unresolved>>
         [] form \in Accepted /\ disk.kind = "partial" ->
              \* json.load raises; main prints the error and returns 1
              /\ current_checklist' = Checklist(file)
              /\ resumed' = {}
              /\ pc' = "returned"
              /\ ret' = Return(1)
              /\ UNCHANGED <<disk, status, i, j, gate, task, proc, metric, unresolved>>
         [] form \in Accepted /\ disk.kind = "none" ->
              Commit(InitialStatus(file),
                     /\ current_checklist' = Checklist(file)
                     /\ resumed' = {}
                     /\ pc' = "loaded"
                     /\ UNCHANGED <<i, j, gate, task, proc, metric, ret, unresolved>>)

\* an execute_checklist whose loop begins with the last phase
EnterAtLastPhase ==
    /\ pc = "loaded"
    /\ IF ~current_checklist.loaded
       THEN /\ pc' = "returned"
            /\ ret' = Return(1)
            /\ i' = i
       ELSE IF Len(current_checklist.phases) = 0
       THEN /\ pc' = "returned"
            /\ ret' = Return(0)
            /\ i' = i
       ELSE /\ pc' = "phase"
            /\ ret' = ret
            /\ i' = Len(current_checklist.phases)
    /\ UNCHANGED <<file, current_checklist, status, disk, resumed, j, gate,
                   task, proc, metric, runs, unresolved, form, faulty, call>>

\* execute_checklist up to the loop over the phases
Enter ==
    /\ pc = "loaded"
    /\ IF ~current_checklist.loaded
       THEN /\ pc' = "returned"
            /\ ret' = Return(1)
            /\ i' = i
       ELSE IF Len(current_checklist.phases) = 0
       THEN /\ pc' = "returned"
            /\ ret' = Return(0)
            /\ i' = i
       ELSE /\ pc' = "phase"
            /\ ret' = ret
            /\ i' = 1
    /\ UNCHANGED <<file, current_checklist, status, disk, resumed, j, gate,
                   task, proc, metric, runs, unresolved, form, faulty, call>>

\* the number of tasks of the current phase
NTasks == current_checklist.phases[i]

\* a loop over the tasks that begins with the last one
StartPhaseAtLastTask ==
    /\ pc = "phase"
    /\ \E g \in Gates :
          Commit(SetPhaseStatus(status, i, IN_PROGRESS),
                 /\ gate' = g
                 /\ IF NTasks = 0
                    THEN pc' = "gate" /\ j' = 0
                    ELSE pc' = "task" /\ j' = NTasks
                 /\ metric' = NoMetric
                 /\ UNCHANGED <<current_checklist, resumed, i, task, proc, ret, unresolved>>)
    /\ UNCHANGED <<file, runs, form, faulty, call>>

\* a phase begins: it is marked in_progress
StartPhase ==
    /\ pc = "phase"
    /\ \E g \in Gates :
          Commit(SetPhaseStatus(status, i, IN_PROGRESS),
                 /\ gate' = g
                 /\ IF NTasks = 0
                    THEN pc' = "gate" /\ j' = 0
                    ELSE pc' = "task" /\ j' = 1
                 /\ metric' = NoMetric
                 /\ UNCHANGED <<current_checklist, resumed, i, task, proc, ret, unresolved>>)
    /\ UNCHANGED <<file, runs, form, faulty, call>>

\* a validation step for every task, declared or not
AfterCommandValidates(t) == "validation"

\* a task whose command is run before its blockers are looked at
AfterStartCommandFirst(t) ==
    IF t.command THEN "command"
    ELSE IF t.blockers # <<>> THEN "blockers"
    ELSE IF t.validation.present THEN "validation" ELSE "complete"

\* the step of a task that follows its blockers, its command
AfterCommand(t) == IF t.validation.present THEN "validation" ELSE "complete"
AfterBlockers(t) == IF t.command THEN "command" ELSE AfterCommand(t)
AfterStart(t) == IF t.blockers # <<>> THEN "blockers" ELSE AfterBlockers(t)

\* a task begins: it is marked in_progress
StartTask ==
    /\ pc = "task"
    /\ \E t \in Tasks :
          Commit(SetTaskStatus(status, i, j, IN_PROGRESS),
                 /\ task' = t
                 /\ proc' = NoProc
                 /\ pc' = AfterStart(t)
                 /\ unresolved' = <<>>
                 /\ UNCHANGED <<current_checklist, resumed, i, j, gate, metric, ret>>)
    /\ UNCHANGED <<file, runs, form, faulty, call>>

\* a loop that takes up the same task again
NextTaskAgain ==
    /\ pc' = "task"
    /\ j' = j
    /\ task' = NoTask
    /\ proc' = NoProc
    /\ UNCHANGED <<current_checklist, resumed, i, gate, metric, ret>>

\* the loop goes on to the next task of the phase, or leaves it
NextTask ==
    /\ IF j < NTasks
       THEN pc' = "task" /\ j' = j + 1
       ELSE pc' = "gate" /\ j' = j
    /\ task' = NoTask
    /\ proc' = NoProc
    /\ UNCHANGED <<current_checklist, resumed, i, gate, metric, ret>>

\* a failure after which the loop goes on with the next task
ContinueAfterFailure ==
    /\ IF j < NTasks
       THEN pc' = "task" /\ j' = j + 1
       ELSE pc' = "gate" /\ j' = j
    /\ UNCHANGED <<current_checklist, resumed, i, gate, task, metric, ret, unresolved>>

\* return 1 from inside the loops
Return1 ==
    /\ pc' = "returned"
    /\ ret' = Return(1)
    /\ UNCHANGED <<current_checklist, resumed, i, j, gate, task, metric, unresolved>>

\* how the diagnostics and the assistant calls of a list of blockers can
\* end; what is not declared is not run
DiagnosticsOf(blockers) ==
    {ds \in [1..Len(blockers) -> DiagnosticRuns \cup {NoProc}] :
        \A k \in 1..Len(blockers) :
            (ds[k] = NoProc) <=> ~ResolutionOf(blockers[k]).diagnostics}

\* how the assistant calls end, "none" for a blocker it is not called for
AssistantOf(blockers, ds) ==
    {as \in [1..Len(blockers) -> AssistantOutcomes \cup {"none"}] :
        \A k \in 1..Len(blockers) :
            (as[k] = "none") <=> ~assistant_invoked(blockers[k], ds[k])}

\* a check of the blockers that only reports: the task goes on either way
ResolveBlockersAdvisory ==
    /\ pc = "blockers"
    /\ \E ds \in DiagnosticsOf(task.blockers) : \E as \in AssistantOf(task.blockers, ds) :
          LET r == resolve_blockers(task.blockers, ds, as)
          IN  IF r.raised
              THEN /\ Return1
                   /\ UNCHANGED <<status, disk, proc>>
              ELSE /\ pc' = AfterBlockers(task)
                   /\ unresolved' = r.unresolved
                   /\ UNCHANGED <<current_checklist, status, disk, resumed, i, j,
                                  gate, task, proc, metric, ret>>
    /\ UNCHANGED <<file, runs, form, faulty, call>>

\* a check of the blockers that ends the run when some stay unresolved
ResolveBlockersFailFast ==
    /\ pc = "blockers"
    /\ \E ds \in DiagnosticsOf(task.blockers) : \E as \in AssistantOf(task.blockers, ds) :
          LET r == resolve_blockers(task.blockers, ds, as)
          IN  IF r.raised
              THEN /\ Return1
                   /\ UNCHANGED <<status, disk, proc>>
              ELSE IF r.unresolved # <<>>
              THEN Commit(SetTaskStatus(status, i, j, BLOCKED),
                          /\ pc' = "returned"
                          /\ ret' = Return(1)
                          /\ unresolved' = r.unresolved
                          /\ UNCHANGED <<current_checklist, resumed, i, j, gate,
                                         task, proc, metric>>)
              ELSE /\ pc' = AfterBlockers(task)
                   /\ unresolved' = r.unresolved
                   /\ UNCHANGED <<current_checklist, status, disk, resumed, i, j,
                                  gate, task, proc, metric, ret>>
    /\ UNCHANGED <<file, runs, form, faulty, call>>

\* the blockers of the task are checked
ResolveBlockers ==
    /\ pc = "blockers"
    /\ \E ds \in DiagnosticsOf(task.blockers) : \E as \in AssistantOf(task.blockers, ds) :
          LET r == resolve_blockers(task.blockers, ds, as)
          IN  IF r.raised
              THEN \* caught by the except of execute_checklist
                   /\ Return1
                   /\ UNCHANGED <<status, disk, proc>>
              ELSE IF r.unresolved # <<>>
              THEN Commit(SetTaskStatus(status, i, j, BLOCKED),
                          NextTask /\ unresolved' = r.unresolved)
              ELSE /\ pc' = AfterBlockers(task)
                   /\ unresolved' = r.unresolved
                   /\ UNCHANGED <<current_checklist, status, disk, resumed, i, j,
                                  gate, task, proc, metric, ret>>
    /\ UNCHANGED <<file, runs, form, faulty, call>>

\* a command whose failure also marks the phase failed
RunCommandFailsPhase ==
    /\ pc = "command"
    /\ \E r \in CommandRuns :
          IF r.raised \/ r.returncode # 0
          THEN Commit(SetPhaseStatus(SetTaskStatus(status, i, j, FAILED), i, FAILED),
                      Return1 /\ proc' = r)
          ELSE /\ pc' = AfterCommand(task)
               /\ proc' = r
               /\ UNCHANGED <<current_checklist, status, disk, resumed, i, j,
                              gate, task, metric, ret, unresolved>>
    /\ UNCHANGED <<file, runs, form, faulty, call>>

\* the command of the task is run
RunCommand ==
    /\ pc = "command"
    /\ \E r \in CommandRuns :
          IF r.raised \/ r.returncode # 0
          THEN Commit(SetTaskStatus(status, i, j, FAILED),
                      Return1 /\ proc' = r)
          ELSE /\ pc' = AfterCommand(task)
               /\ proc' = r
               /\ UNCHANGED <<current_checklist, status, disk, resumed, i, j,
                              gate, task, metric, ret, unresolved>>
    /\ UNCHANGED <<file, runs, form, faulty, call>>

\* the validation script of the task is run; one that exits 0 may have
\* reported a value for the metric of the phase's gate
RunValidation ==
    /\ pc = "validation"
    /\ \E r \in ValidationRuns :
          IF r.raised \/ r.returncode # 0
          THEN Commit(SetTaskStatus(status, i, j, FAILED),
                      Return1 /\ proc' = r)
          ELSE /\ pc' = "complete"
               /\ proc' = r
               /\ \E m \in (IF gate.present THEN Metrics ELSE {NoMetric}) :
                     metric' = IF m.reported THEN m ELSE metric
               /\ UNCHANGED <<current_checklist, status, disk, resumed, i, j,
                              gate, task, ret, unresolved>>
    /\ UNCHANGED <<file, runs, form, faulty, call>>

\* the task is marked completed
CompleteTask ==
    /\ pc = "complete"
    /\ Commit(SetTaskStatus(status, i, j, COMPLETED),
              NextTask /\ UNCHANGED unresolved)
    /\ UNCHANGED <<file, runs, form, faulty, call>>

\* _check_success_gate
check_success_gate(g) ==
    IF g.metric = "" THEN TRUE
    ELSE IF g.metric = "integration_test_coverage" THEN TRUE
    ELSE IF g.metric = "api_test_coverage" THEN TRUE
    ELSE IF g.metric = "validation_coverage" THEN TRUE
    ELSE TRUE

\* the tasks of the phase are through: its success gate, then the next phase
FinishPhase ==
    /\ pc = "gate"
    /\ IF gate.present /\ ~check_success_gate(gate)
       THEN Commit(SetPhaseStatus(status, i, FAILED),
                   /\ pc' = "returned"
                   /\ ret' = Return(1)
                   /\ UNCHANGED <<current_checklist, resumed, i, j, gate, task,
                                  proc, metric, unresolved>>)
       ELSE Commit(SetPhaseStatus(status, i, COMPLETED),
                   /\ IF i < Len(current_checklist.phases)
                      THEN pc' = "phase" /\ i' = i + 1 /\ j' = 0 /\ ret' = ret
                      ELSE pc' = "returned" /\ i' = i /\ j' = j /\ ret' = Return(0)
                   /\ gate' = NoGate
                   /\ metric' = NoMetric
                   /\ unresolved' = <<>>
                   /\ UNCHANGED <<current_checklist, resumed, task, proc>>)
    /\ UNCHANGED <<file, runs, form, faulty, call>>

Running == {"constructed", "loaded", "phase", "task", "blockers", "command",
            "validation", "complete", "gate"}

\* the process is killed from outside
Crash ==
    /\ pc \in Running
    /\ pc' = "killed"
    /\ Cleared
    /\ UNCHANGED <<file, disk, runs, form, faulty, call>>

\* main is started again: a new Orchestrator
Invoke ==
    /\ pc \in {"returned", "killed"}
    /\ runs < MaxRuns
    /\ runs' = runs + 1
    /\ pc' = "constructed"
    /\ Cleared
    /\ UNCHANGED <<file, disk, form, faulty, call>>

Next ==
    \/ LoadChecklist
    \/ Enter
    \/ StartPhase
    \/ StartTask
    \/ ResolveBlockers
    \/ RunCommand
    \/ RunValidation
    \/ CompleteTask
    \/ FinishPhase
    \/ Crash
    \/ Invoke

Spec == Init /\ [][Next]_vars

\* f is the checklist s after tasks or phases were added at the end
Extended(s, f) ==
    /\ f # s
    /\ Len(f) >= Len(s)
    /\ \A p \in 1..Len(s) : f[p] >= s[p]

\* between two invocations the checklist file is edited: tasks are added to
\* phases, phases are added to the checklist
EditChecklist ==
    /\ pc \in {"returned", "killed"}
    /\ runs < MaxRuns
    /\ \E f \in Shapes : Extended(file, f) /\ file' = f
    /\ UNCHANGED <<current_checklist, status, disk, resumed, pc, i, j, gate,
                   task, proc, metric, ret, runs, unresolved, form, faulty, call>>

NextEdited ==
    \/ LoadChecklist
    \/ Enter
    \/ StartPhase
    \/ StartTask
    \/ ResolveBlockers
    \/ RunCommand
    \/ RunValidation
    \/ CompleteTask
    \/ FinishPhase
    \/ Crash
    \/ Invoke
    \/ EditChecklist

SpecEdited == Init /\ [][NextEdited]_vars

SpecAnyFile == InitAnyFile /\ [][Next]_vars

\* resolve_blockers is called by itself with any list of blockers
InitResolver ==
    /\ call \in {Pending(b) : b \in BlockerSeqs}
    /\ file = <<>>
    /\ form = WellFormed
    /\ faulty = FALSE
    /\ Constructed

\* the call runs: the diagnostics and the assistant calls end in some way
ResolveCall ==
    /\ call.result = "pending"
    /\ \E ds \in DiagnosticsOf(call.blockers) : \E as \in AssistantOf(call.blockers, ds) :
          LET r == resolve_blockers(call.blockers, ds, as)
          IN  call' = Call(call.blockers, ds, as,
                           IF r.raised THEN "raised" ELSE "returned",
                           IF r.raised THEN <<>> ELSE r.unresolved,
                           Asked(call.blockers, ds, as))
    /\ UNCHANGED <<file, current_checklist, status, disk, resumed, pc, i, j, gate,
                   task, proc, metric, ret, runs, unresolved, form, faulty>>

SpecResolver == InitResolver /\ [][ResolveCall]_vars

\* A call of validate_task by itself: the task, whether its script file is
\* there, how the run of the script ended (with artifacts_dir as it then
\* is), the directory of the task under artifacts_dir, and the result.
ValidatorCall(t, script_exists, r, own, result, value) ==
    [task |-> t, script_exists |-> script_exists, run |-> r, own |-> own,
     result |-> result, value |-> value,
     ran |-> result = "returned" /\ runs_script(t),
     parsed |-> result = "returned" /\ parses_stdout(t, r),
     looked_up |-> IF result = "returned" THEN looked_up(t, r) ELSE {}]

InitValidator ==
    /\ call \in {ValidatorCall(t, e, NoProc, NoFiles, "pending", <<>>) :
                    t \in ValidatorTasks, e \in BOOLEAN}
    /\ file = <<>>
    /\ form = WellFormed
    /\ faulty = FALSE
    /\ Constructed

\* the call runs: the script, if there is one to run, ends in some way
ValidateCall ==
    /\ call.result = "pending"
    /\ \E root \in RootDirs, own \in TaskDirs :
        \E p \in IF runs_script(call.task) THEN ScriptRuns(call.script_exists) ELSE {NoProc} :
          LET r == [p EXCEPT !.files = root]
          IN  call' = ValidatorCall(call.task, call.script_exists, r, own,
                                    "returned", validate_task(call.task, r))
    /\ UNCHANGED <<file, current_checklist, status, disk, resumed, pc, i, j, gate,
                   task, proc, metric, ret, runs, unresolved, form, faulty>>

SpecValidator == InitValidator /\ [][ValidateCall]_vars

\* An Orchestrator used through its methods, as the tests do: the
\* attributes load_checklist and _save_status read and write.
\* checklist_name is "unset" while the object has no such attribute.
Object(name, checklist, doc) ==
    [checklist_name |-> name, current_checklist |-> checklist, status |-> doc]

Fresh == Object("unset", None, EmptyStatus)

\* the checklists load_checklist is called with, and their phases
ChecklistNames == {"a", "b"}
PhasesOf(name) == IF name = "a" THEN <<1>> ELSE <<1, 1>>

\* a checklist file under checklist_dir: not there, or there in some form
FileForms == {"missing", NoChecklistKey, NoPhasesKey, WellFormed}

\* load_checklist(name) on the object o, where forms[n] is the checklist
\* file of n and files[n] the status file of n: the object and the status
\* files afterwards, and whether the call raised
load_checklist(o, name, forms, files) ==
    LET named == [o EXCEPT !.checklist_name = name]
    IN  IF forms[name] # WellFormed
        THEN [o |-> named, files |-> files, raised |-> TRUE]
        ELSE IF files[name].kind = "doc"
        THEN [o |-> Object(name, Checklist(PhasesOf(name)), files[name].doc),
              files |-> files, raised |-> FALSE]
        ELSE LET doc == InitialStatus(PhasesOf(name))
             IN  [o |-> Object(name, Checklist(PhasesOf(name)), doc),
                  files |-> [files EXCEPT ![name] = save_status(@, doc, "ok")],
                  raised |-> FALSE]

\* the status files after _save_status() on the object o
saved(o, files) ==
    IF ~o.current_checklist.loaded \/ o.checklist_name = "unset"
    THEN files
    ELSE [files EXCEPT ![o.checklist_name] = save_status(@, o.status, "ok")]

\* The object with its files: owner is the checklist that current_checklist
\* was loaded from, last the call made last.
LoaderCall(o, forms, files, owner, last) ==
    [o |-> o, forms |-> forms, files |-> files, owner |-> owner, last |-> last]

InitLoader ==
    /\ call \in {LoaderCall(Fresh, forms, [n \in ChecklistNames |-> NoFile], "none",
                             [op |-> "none", name |-> "none", raised |-> FALSE]) :
                    forms \in [ChecklistNames -> FileForms]}
    /\ file = <<>>
    /\ form = WellFormed
    /\ faulty = FALSE
    /\ Constructed

\* load_checklist is called
LoadCall ==
    /\ \E name \in ChecklistNames :
          LET r == load_checklist(call.o, name, call.forms, call.files)
          IN  call' = LoaderCall(r.o, call.forms, r.files,
                                 IF r.raised THEN call.owner ELSE name,
                                 [op |-> "load", name |-> name, raised |-> r.raised])
    /\ UNCHANGED <<file, current_checklist, status, disk, resumed, pc, i, j, gate,
                   task, proc, metric, ret, runs, unresolved, form, faulty>>

\* _save_status is called, as execute_checklist does after every change
SaveCall ==
    /\ call' = LoaderCall(call.o, call.forms, saved(call.o, call.files), call.owner,
                          [op |-> "save", name |-> "none", raised |-> FALSE])
    /\ UNCHANGED <<file, current_checklist, status, disk, resumed, pc, i, j, gate,
                   task, proc, metric, ret, runs, unresolved, form, faulty>>

SpecLoader == InitLoader /\ [][LoadCall \/ SaveCall]_vars

\* the methods class TransitionValidator defines
TransitionValidatorMethods == {"__init__", "validate_task"}

\* validator.<name>: the method, or AttributeError for a name the class
\* does not define
getattr(name) ==
    IF name \in TransitionValidatorMethods THEN "method" ELSE "AttributeError"

\* the names under which the cleanup of a task's artifacts is called
CleanupNames == {"cleanup", "cleanup_artifacts"}

\* The directory artifacts_dir/<task_id>: not there, or the files in it
\* with their age in days.
NoDir == [exists |-> FALSE, files |-> NoFiles]
Dir(files) == [exists |-> TRUE, files |-> files]
AgedDirs ==
    {NoDir} \cup
    {Dir(f) : f \in UNION {[names -> 0..MaxAgeDays] :
                              names \in SUBSET {"old.txt", "new.txt"}}}

\* A call validator.<name>(task_id, max_age_days) by itself: the directory
\* before and after, and the result ("pending", "returned" with the count,
\* or "raised").
CleanupCallOf(name, dir, max_age_days, result, count, after) ==
    [name |-> name, dir |-> dir, max_age_days |-> max_age_days,
     result |-> result, count |-> count, after |-> after]

InitCleanup ==
    /\ call \in {CleanupCallOf(n, dir, m, "pending", 0, dir) :
                    n \in CleanupNames, dir \in AgedDirs, m \in 0..MaxAgeDays}
    /\ file = <<>>
    /\ form = WellFormed
    /\ faulty = FALSE
    /\ Constructed

\* the call is made: the attribute lookup fails before anything is done
CleanupCall ==
    /\ call.result = "pending"
    /\ getattr(call.name) = "AttributeError"
    /\ call' = [call EXCEPT !.result = "raised"]
    /\ UNCHANGED <<file, current_checklist, status, disk, resumed, pc, i, j, gate,
                   task, proc, metric, ret, runs, unresolved, form, faulty>>

SpecCleanup == InitCleanup /\ [][CleanupCall]_vars

\* one invocation of main
NextOnce ==
    \/ LoadChecklist
    \/ Enter
    \/ StartPhase
    \/ StartTask
    \/ ResolveBlockers
    \/ RunCommand
    \/ RunValidation
    \/ CompleteTask
    \/ FinishPhase
    \/ Crash

SpecFaulty == InitFaulty /\ [][NextOnce]_vars

\* the steps the process takes by itself
Step ==
    \/ LoadChecklist
    \/ Enter
    \/ StartPhase
    \/ StartTask
    \/ ResolveBlockers
    \/ RunCommand
    \/ RunValidation
    \/ CompleteTask
    \/ FinishPhase

\* One invocation of main in which every external process returns: the
\* interpreter runs the one thread of the program on, so while the process
\* is not killed it takes its next step.
SpecLive == Init /\ [][NextOnce]_vars /\ WF_vars(Step)

---------------------------------------------------------------------------
(* Properties *)

\* the steps of execute_checklist inside the loop over the phases
Executing == {"phase", "task", "blockers", "command", "validation", "complete", "gate"}

\* the phases and, for a phase, the tasks of the loaded checklist
Phases == 1..Len(current_checklist.phases)
TasksOf(p) == 1..current_checklist.phases[p]

\* task (p, t) is declared before task (q, u)
Before(p, t, q, u) == p < q \/ (p = q /\ t < u)

\* the command or the validation script of the current task exited non-zero
ExitedNonZero ==
    /\ proc.kind \in {"command", "validation"}
    /\ ~proc.raised
    /\ proc.returncode # 0

\* C1. Fail-fast: once the command or the validation script of a task has
\* exited non-zero, the task is FAILED in memory and in the status file,
\* execute_checklist has returned 1, and the invocation takes no further
\* step: nothing is started or changed until main is invoked anew.
C1_FailFast ==
    /\ [](ExitedNonZero =>
            /\ pc = "returned"
            /\ ret = Return(1)
            /\ TaskStatus(status, i, j) = FAILED
            /\ disk = Document(status))
    /\ [][ExitedNonZero => pc' = "constructed"]_vars

C1_Witness ==
    /\ ExitedNonZero
    /\ pc = "returned"
    /\ TaskStatus(status, i, j) = FAILED
    /\ (j < NTasks \/ i < Len(current_checklist.phases))

\* C2. A phase becomes COMPLETED only if at that moment every task of the
\* phase is COMPLETED and the success gate of the phase, if it has one, is
\* satisfied by the reported metric.
C2_PhaseCompletedOnlyIfTasksCompleted ==
    [][(pc = "gate" /\ PhaseStatus(status', i) = COMPLETED) =>
          /\ \A t \in TasksOf(i) : TaskStatus(status', i, t) = COMPLETED
          /\ (gate.present /\ metric.reported) => metric.value >= gate.min_value]_vars

\* a status moves not_started -> in_progress -> one terminal status
Monotonic(a, b) ==
    \/ a = b
    \/ a = NOT_STARTED /\ b = IN_PROGRESS
    \/ a = IN_PROGRESS /\ b \in Terminal

\* C3. Over all invocations, the status of a task in the status document
\* only moves not_started -> in_progress -> one terminal status, and a
\* terminal status never changes again.
C3_TaskStatusMonotonic ==
    [][(disk.kind = "doc" /\ disk'.kind = "doc") =>
          \A p \in 1..Len(file) : \A t \in 1..file[p] :
              Monotonic(TaskStatus(disk.doc, p, t), TaskStatus(disk'.doc, p, t))]_vars

\* C4. When the status file read by load_checklist shows phase 1 and all
\* its tasks COMPLETED, the commands of its tasks are not run again: when
\* the invocation stands before a command, it is that of a task of a later
\* phase, and phase 1 is reported COMPLETED.
C4_ResumeSkipsCompletedPhase ==
    (1 \in resumed /\ pc = "command") =>
        /\ i > 1
        /\ PhaseStatus(status, 1) = COMPLETED

\* C5. The status file is never left empty, truncated or partially written.
C5_SaveAllOrNothing == disk.kind # "partial"

\* C6. Durability before progress: at every step of execute_checklist
\* (before each external process, each task and each phase) the status file
\* holds exactly the in-memory status.
C6_PersistedBeforeNextStep ==
    pc \in Executing => disk = Document(status)

C6_Witness ==
    /\ pc = "validation"
    /\ proc.kind = "command"
    /\ TaskStatus(status, i, j) = IN_PROGRESS
    /\ disk = Document(status)
    /\ runs = MaxRuns

\* C7. Success gate: when the tasks of a phase with a gate are through and
\* its validations reported the metric, a value below min_value marks the
\* phase FAILED and execute_checklist returns 1; a value at or above it
\* marks the phase COMPLETED.
C7_SuccessGateDecides ==
    [][(pc = "gate" /\ gate.present /\ metric.reported /\ pc' \in {"phase", "returned"}) =>
          IF metric.value < gate.min_value
          THEN /\ PhaseStatus(status', i) = FAILED
               /\ disk' = Document(status')
               /\ pc' = "returned"
               /\ ret' = Return(1)
          ELSE PhaseStatus(status', i) = COMPLETED]_vars

\* the task status a ValidationResult status stands for
TaskStatusOf(v) ==
    CASE v = SUCCESS  -> COMPLETED
      [] v = FAILURE  -> FAILED
      [] v = VBLOCKED -> BLOCKED
      [] v = SKIPPED  -> COMPLETED

\* C8. A task with a validation spec ends in the status that validate_task's
\* result for the run of its script stands for.
C8_TerminalStatusIsValidationResult ==
    [][/\ (pc = "validation" /\ pc' = "returned") =>
            TaskStatus(status', i, j) = TaskStatusOf(validate_task(task, proc').status)
       /\ (pc = "complete" /\ task.validation.present /\ pc' \in {"task", "gate"}) =>
            TaskStatus(status', i, j) = TaskStatusOf(validate_task(task, proc).status)]_vars

\* every phase and every task of the checklist is COMPLETED
AllCompleted ==
    \A p \in Phases :
        /\ PhaseStatus(status, p) = COMPLETED
        /\ \A t \in TasksOf(p) : TaskStatus(status, p, t) = COMPLETED

\* C9. execute_checklist returns 0 only when every phase and every task
\* ended COMPLETED; with a blocker left unresolved it returns 1.
C9_ReturnsZeroOnlyIfAllCompleted ==
    (pc = "returned" /\ ret = Return(0)) => AllCompleted

\* a step that marks task (i, j) in_progress
StartsTask == pc = "task" /\ pc' \in {"blockers", "command", "validation", "complete"}

\* C10. Declared order, no overlap: when a task is marked in_progress every
\* task declared before it is in a terminal status and, in a first
\* invocation, every task declared after it is still not started; the loop
\* position never moves backwards.
C10_DeclaredOrder ==
    [][/\ StartsTask =>
            \A p \in Phases : \A t \in TasksOf(p) :
                /\ Before(p, t, i, j) => TaskStatus(status', p, t) \in Terminal
                /\ (Before(i, j, p, t) /\ runs = 1) =>
                        TaskStatus(status', p, t) = NOT_STARTED
       /\ (pc \in Executing /\ pc' \in Executing) =>
            (<<i', j'>> = <<i, j>> \/ Before(i, j, i', j'))]_vars

C10_Witness ==
    /\ pc = "command"
    /\ i = 2
    /\ TaskStatus(status, 1, 1) = BLOCKED
    /\ TaskStatus(status, 2, 1) = IN_PROGRESS

\* C11. A checklist of one phase with one task that has no command, no
\* validation and no blockers: the task goes from in_progress straight to
\* COMPLETED, then the phase is COMPLETED and execute_checklist returns 0,
\* each status in memory and in the status file.
C11_PlainTaskCompletes ==
    [][file = <<1>> =>
         /\ (pc = "task" /\ task' = NoTask /\ pc' # "killed") => pc' = "complete"
         /\ (pc = "complete" /\ task = NoTask /\ pc' # "killed") =>
                /\ pc' = "gate"
                /\ TaskStatus(status', 1, 1) = COMPLETED
                /\ disk' = Document(status')
         /\ (pc = "gate" /\ TaskStatus(status, 1, 1) = COMPLETED /\ pc' # "killed") =>
                /\ pc' = "returned"
                /\ ret' = Return(0)
                /\ PhaseStatus(status', 1) = COMPLETED
                /\ TaskStatus(status', 1, 1) = COMPLETED
                /\ disk' = Document(status')]_vars

C11_Witness ==
    /\ file = <<1>>
    /\ pc = "complete"
    /\ task = NoTask
    /\ proc = NoProc
    /\ TaskStatus(status, 1, 1) = IN_PROGRESS

\* task (p, t) has been taken up by the loop in this invocation
TakenUp(p, t) == Before(p, t, i, j) \/ (<<p, t>> = <<i, j>> /\ pc # "task")

\* C12. When resolve_blockers returns a non-empty list for a task, the task
\* is marked BLOCKED in memory and in the status file and the loop goes on
\* with the next task; the command and the validation script of a task are
\* reached only with an empty list; and a BLOCKED task stays BLOCKED for
\* the rest of the invocation.
C12_UnresolvedBlocksTask ==
    /\ [](pc \in {"command", "validation", "complete"} => unresolved = <<>>)
    /\ [][(pc = "blockers" /\ unresolved' # <<>>) =>
            /\ TaskStatus(status', i, j) = BLOCKED
            /\ disk' = Document(status')
            /\ pc' \in {"task", "gate"}]_vars
    /\ [][(pc \in Executing /\ pc' \in Executing \cup {"returned"}) =>
            \A p \in Phases : \A t \in TasksOf(p) :
                (TakenUp(p, t) /\ TaskStatus(status, p, t) = BLOCKED) =>
                    TaskStatus(status', p, t) = BLOCKED]_vars

C12_Witness ==
    /\ pc = "task"
    /\ j = 2
    /\ unresolved # <<>>
    /\ TaskStatus(status, i, 1) = BLOCKED
    /\ disk = Document(status)

\* C13. A load_checklist that succeeds takes the document of the status
\* file unchanged as the in-memory status when there is one; when there is
\* none it sets every phase and every task of the checklist to NOT_STARTED
\* and writes that document.  After it the status file holds the in-memory
\* status.
C13_LoadReusesOrInitialises ==
    /\ [](pc = "loaded" => disk = Document(status))
    /\ [][(pc = "constructed" /\ pc' = "loaded") =>
            IF disk.kind = "doc"
            THEN status' = disk.doc /\ disk' = disk
            ELSE /\ DOMAIN status' = 1..Len(file)
                 /\ \A p \in 1..Len(file) :
                       /\ status'[p].status = NOT_STARTED
                       /\ DOMAIN status'[p].tasks = 1..file[p]
                       /\ \A t \in 1..file[p] : status'[p].tasks[t] = NOT_STARTED
                 /\ disk' = Document(status')]_vars

C13_Witness ==
    /\ pc = "loaded"
    /\ runs = 2
    /\ TaskStatus(status, 1, 1) = FAILED
    /\ disk = Document(status)

\* C14. load_checklist rejects a checklist file that is not well-formed (no
\* phases list, or a phase without tasks list): main returns 1 and nothing
\* is loaded, neither the checklist nor a status, and no status file is
\* written.
C14_MalformedRejected ==
    [][(pc = "constructed" /\ form # WellFormed) =>
          /\ pc' \in {"returned", "killed"}
          /\ pc' = "returned" => ret' = Return(1)
          /\ current_checklist' = None
          /\ status' = EmptyStatus
          /\ disk' = disk]_vars

\* the status document has no entry for task (p, t)
Missing(p, t) == p \notin DOMAIN status \/ t \notin DOMAIN status[p].tasks

\* C15. An entry that the reloaded status document lacks for a phase or a
\* task of the checklist counts as NOT_STARTED: it is displayed as
\* not_started, and execute_checklist takes the phase or task up like any
\* other: it marks it in_progress, saves, goes on to the task's steps and
\* leaves the task in a terminal status, keeping the entries that were
\* there.
C15_MissingEntryIsNotStarted ==
    /\ [](pc = "loaded" =>
            \A p \in Phases :
                /\ p \notin DOMAIN status => PhaseStatus(status, p) = NOT_STARTED
                /\ \A t \in TasksOf(p) :
                       Missing(p, t) => TaskStatus(status, p, t) = NOT_STARTED)
    /\ [][(pc = "phase" /\ i \notin DOMAIN status /\ pc' # "killed") =>
            /\ PhaseStatus(status', i) = IN_PROGRESS
            /\ disk' = Document(status')
            /\ pc' \in {"task", "gate"}
            /\ \A p \in DOMAIN status : status'[p] = status[p]]_vars
    /\ [][(pc = "task" /\ Missing(i, j) /\ pc' # "killed") =>
            /\ TaskStatus(status', i, j) = IN_PROGRESS
            /\ disk' = Document(status')
            /\ pc' \in {"blockers", "command", "validation", "complete"}
            /\ \A t \in DOMAIN status[i].tasks :
                   status'[i].tasks[t] = status[i].tasks[t]]_vars
    /\ [][(pc \in {"blockers", "command", "validation", "complete"}
            /\ pc' \in {"task", "gate", "returned"}
            /\ ~(pc = "blockers" /\ pc' = "returned")) =>
            TaskStatus(status', i, j) \in Terminal]_vars

C15_Witness ==
    /\ pc = "task"
    /\ runs = 2
    /\ j = 2
    /\ i \in DOMAIN status
    /\ j \notin DOMAIN status[i].tasks
    /\ TaskStatus(status, i, 1) = COMPLETED
    /\ disk = Document(status)

\* the entries of the in-memory status other than those of phase i and of
\* task (i, j) are what they were
OthersKept ==
    \A p \in DOMAIN status :
        /\ p \in DOMAIN status'
        /\ p # i => status'[p].status = status[p].status
        /\ \A t \in DOMAIN status[p].tasks :
               <<p, t>> # <<i, j>> => TaskStatus(status', p, t) = status[p].tasks[t]

\* what a step of the invocation does in memory when its writes succeed
StepInMemory ==
    CASE pc = "constructed" /\ disk.kind = "doc" ->
            pc' = "loaded" /\ status' = disk.doc
      [] pc = "constructed" /\ disk.kind = "partial" ->
            pc' = "returned" /\ ret' = Return(1)
      [] pc = "constructed" /\ disk.kind = "none" ->
            /\ pc' = "loaded"
            /\ DOMAIN status' = 1..Len(file)
            /\ \A p \in 1..Len(file) : \A t \in 1..file[p] :
                   PhaseStatus(status', p) = NOT_STARTED /\ ~Missing(p, t)' /\
                   TaskStatus(status', p, t) = NOT_STARTED
      [] pc = "loaded" ->
            /\ status' = status
            /\ pc' = IF Len(file) = 0 THEN "returned" ELSE "phase"
      [] pc = "phase" ->
            /\ PhaseStatus(status', i) = IN_PROGRESS
            /\ pc' \in {"task", "gate"}
            /\ OthersKept
      [] pc = "task" ->
            /\ TaskStatus(status', i, j) = IN_PROGRESS
            /\ pc' \in {"blockers", "command", "validation", "complete"}
            /\ OthersKept
      [] pc = "blockers" ->
            IF unresolved' # <<>>
            THEN TaskStatus(status', i, j) = BLOCKED /\ pc' \in {"task", "gate"} /\ OthersKept
            ELSE status' = status /\ pc' \in {"command", "validation", "complete", "returned"}
      [] pc \in {"command", "validation"} ->
            IF proc'.raised \/ proc'.returncode # 0
            THEN /\ TaskStatus(status', i, j) = FAILED
                 /\ pc' = "returned"
                 /\ ret' = Return(1)
                 /\ OthersKept
            ELSE status' = status /\ pc' \in {"validation", "complete"}
      [] pc = "complete" ->
            /\ TaskStatus(status', i, j) = COMPLETED
            /\ pc' \in {"task", "gate"}
            /\ OthersKept
      [] pc = "gate" ->
            /\ PhaseStatus(status', i) = COMPLETED
            /\ IF i < Len(file)
               THEN pc' = "phase" /\ i' = i + 1
               ELSE pc' = "returned" /\ ret' = Return(0)
            /\ OthersKept

\* C16. A write of the status file that fails is not fatal and loses nothing
\* in memory: whether its writes succeed or fail, every step of an
\* invocation that is not killed has the same effect on the in-memory
\* status, goes on to the same next step and returns the same value; and a
\* write that reaches the file writes the whole in-memory status.
C16_FailedWriteNonFatal ==
    /\ [][(pc \in Running /\ pc' # "killed") => StepInMemory]_vars
    /\ [][(disk' # disk /\ disk'.kind = "doc") => disk' = Document(status')]_vars

C16_Witness ==
    /\ pc = "returned"
    /\ ret = Return(0)
    /\ file = <<1, 1>>
    /\ AllCompleted
    /\ disk = NoFile

\* an external process ended in a fault: the call itself raised (executable
\* not found, permission denied), or the validation script printed
\* something other than the JSON object expected of it
Fault(r) ==
    \/ r.raised
    \/ r.kind = "validation" /\ r.returncode = 0 /\ r.stdout \in {"notjson", "nonobject"}

\* validate_task answers every fault of the script's run with FAILURE
ValidateTaskFaultsFail ==
    \A t \in Tasks : \A r \in ValidationRuns :
        (t.validation.present /\ Fault(r)) => validate_task(t, r).status = FAILURE

\* C17. No fault of an external process escapes: in execute_checklist the
\* task whose process (command, validation script, blocker check) ended in
\* a fault is marked FAILED in memory and in the status file and
\* execute_checklist returns 1; validate_task returns a result with status
\* FAILURE.
C17_FaultsBecomeFailure ==
    /\ [][((pc \in {"command", "validation"} /\ Fault(proc') /\ pc' # "killed")
            \/ (pc = "blockers" /\ pc' = "returned")) =>
            /\ pc' = "returned"
            /\ ret' = Return(1)
            /\ TaskStatus(status', i, j) = FAILED
            /\ disk' = Document(status')]_vars
    /\ []ValidateTaskFaultsFail

\* the positions of the blockers of the call that are not resolved
UnresolvedAt ==
    {k \in 1..Len(call.blockers) :
        check_if_resolved(call.blockers[k], call.diagnostics[k], call.assistant[k])
            = "false"}

\* C18. resolve_blockers returns exactly the blockers that are not
\* resolved, in the order of the input and each as it was given; for the
\* empty list it returns the empty list.
C18_UnresolvedSubsequence ==
    /\ call.result = "returned" =>
          /\ Len(call.unresolved) = Cardinality(UnresolvedAt)
          /\ \E f \in [1..Len(call.unresolved) -> UnresolvedAt] :
                /\ \A a, b \in 1..Len(call.unresolved) : a < b => f[a] < f[b]
                /\ \A a \in 1..Len(call.unresolved) :
                       call.unresolved[a] = call.blockers[f[a]]
    /\ (call.blockers = <<>> /\ call.result # "pending") =>
          (call.result = "returned" /\ call.unresolved = <<>>)

C18_Witness ==
    /\ call.result = "returned"
    /\ Len(call.blockers) = 2
    /\ call.blockers[1] # call.blockers[2]
    /\ call.unresolved = call.blockers

\* C19. A blocker that declares only a diagnostics command: a non-zero exit
\* leaves it unresolved; exit 0 with a JSON object whose status is
\* "success" resolves it; exit 0 with a JSON object whose status is
\* something else leaves it unresolved; exit 0 with stdout that is no JSON
\* resolves it.
C19_DiagnosticsOnly ==
    (call.result = "returned" /\ call.blockers = <<DiagnosticsBlocker>>) =>
        LET d == call.diagnostics[1]
        IN  /\ (~d.raised /\ d.returncode # 0) => call.unresolved = call.blockers
            /\ (~d.raised /\ d.returncode = 0 /\ d.stdout = "success") =>
                    call.unresolved = <<>>
            /\ (~d.raised /\ d.returncode = 0 /\ d.stdout = "failure") =>
                    call.unresolved = call.blockers
            /\ (~d.raised /\ d.returncode = 0 /\ d.stdout = "notjson") =>
                    call.unresolved = <<>>

C19_Witness ==
    /\ call.result = "returned"
    /\ call.blockers = <<DiagnosticsBlocker>>
    /\ call.diagnostics[1].returncode = 0
    /\ call.diagnostics[1].stdout = "notjson"
    /\ call.unresolved = <<>>

\* the diagnostics command ended as one that passes
Passed(d) == ~d.raised /\ d.returncode = 0 /\ d.stdout \in {"success", "notjson"}

\* C20. Only the first rule that applies decides a blocker.  With a
\* diagnostics command the diagnostic alone decides: when it passes the
\* blocker is resolved, whatever prompt or experts it declares, and the
\* assistant is not called.  With a prompt and no diagnostics the
\* assistant's answer decides, whatever experts it declares.
C20_FirstRuleDecides ==
    (call.result # "pending" /\ Len(call.blockers) = 1) =>
        LET r == ResolutionOf(call.blockers[1])
        IN  /\ (r.diagnostics /\ Passed(call.diagnostics[1])) =>
                   /\ call.result = "returned"
                   /\ call.unresolved = <<>>
                   /\ call.asked = {}
            /\ r.diagnostics => call.asked = {}
            /\ (~r.diagnostics /\ r.lmstudio_prompt = "text"
                    /\ call.result = "returned") =>
                   (call.unresolved = <<>>) <=> contains_resolved(call.assistant[1])

\* the call was of one blocker that the assistant-prompt rule decides
PromptDecides ==
    /\ call.result # "pending"
    /\ Len(call.blockers) = 1
    /\ ~ResolutionOf(call.blockers[1]).diagnostics
    /\ ResolutionOf(call.blockers[1]).lmstudio_prompt = "text"

\* C21. A blocker decided by the assistant-prompt rule is resolved if and
\* only if the assistant's response has the token "resolved", in any letter
\* case; every other response, and the text produced when the invocation
\* fails, leaves it unresolved.
C21_ResolvedTokenDecides ==
    (PromptDecides /\ call.result = "returned") =>
        /\ (call.unresolved = <<>>) <=> (call.assistant[1] = "resolved")
        /\ (call.unresolved = call.blockers) <=> (call.assistant[1] # "resolved")

\* C22. resolve_blockers never raises because of the assistant: however the
\* invocation fails, it returns with that blocker in the list.
C22_AssistantNeverRaises ==
    /\ call.result # "raised"
    /\ (PromptDecides /\ call.assistant[1] \in AssistantFailures) =>
           (call.result = "returned" /\ call.unresolved = call.blockers)

\* C23. A blocker without diagnostics command and without prompt: a
\* non-empty required_experts list leaves it unresolved, an empty one
\* resolves it, and so does a blocker that declares none of the three or
\* has no resolution descriptor.
C23_ExpertsOrDefault ==
    (call.result # "pending" /\ Len(call.blockers) = 1) =>
        LET r == ResolutionOf(call.blockers[1])
        IN  (~r.diagnostics /\ r.lmstudio_prompt = "absent") =>
                /\ call.result = "returned"
                /\ r.required_experts = "nonempty" => call.unresolved = call.blockers
                /\ r.required_experts = "empty" => call.unresolved = <<>>
                /\ r.required_experts = "absent" => call.unresolved = <<>>

C23_Witness ==
    /\ call.result = "returned"
    /\ call.blockers = <<Blocker("TestBlocker", Resolution(FALSE, "absent", "empty"))>>
    /\ call.unresolved = <<>>

\* validate_task has returned for a task with a validation spec
Validated == call.result = "returned" /\ call.task.validation.present

\* the script ran to its end with this return code
Exited(rc) == ~call.run.raised /\ call.run.returncode = rc

\* the declared artifacts of the task
Declared ==
    {call.task.validation.artifacts[k] : k \in 1..Len(call.task.validation.artifacts)}

\* the message has the words "not found"
ContainsNotFound(msg) == \E k \in 1..Len(msg) : msg[k] \in {"config not found"}

\* C24. validate_task on a task without validation spec returns SKIPPED
\* with no artifacts and a message that explains it, and runs no process.
C24_NoValidationIsSkipped ==
    (call.result = "returned" /\ ~call.task.validation.present) =>
        /\ call.value.status = SKIPPED
        /\ call.value.artifacts = NoFiles
        /\ call.value.error_message # NoMessage
        /\ ~call.ran

\* C25. validate_task on a task whose validation script is not on disk
\* returns FAILURE with no artifacts and a message that has "not found".
C25_MissingScriptNotFound ==
    (Validated /\ ~call.script_exists) =>
        /\ call.value.status = FAILURE
        /\ call.value.artifacts = NoFiles
        /\ ContainsNotFound(call.value.error_message)

\* C26. validate_task returns SUCCESS exactly when the script exits 0, its
\* stdout is a document whose status is "success" and every declared
\* artifact is there; the artifact map then has the declared names, each
\* with the content of its file as written.  Another status, or none,
\* with all artifacts there gives FAILURE with the error_message of the
\* output or the fallback.
C26_SuccessWithArtifactsAsWritten ==
    Validated =>
        LET present == Declared \subseteq DOMAIN call.run.files
        IN  /\ (call.value.status = SUCCESS) <=>
                   (Exited(0) /\ call.run.stdout = "success" /\ present)
            /\ call.value.status = SUCCESS =>
                   /\ DOMAIN call.value.artifacts = Declared
                   /\ \A a \in Declared : call.value.artifacts[a] = call.run.files[a]
            /\ (Exited(0) /\ present
                    /\ call.run.stdout \in {"failure", "nostatus", "failure_message"}) =>
                   /\ call.value.status = FAILURE
                   /\ call.value.error_message =
                          IF call.run.stdout = "failure_message"
                          THEN <<"error_message of the output">>
                          ELSE <<"Validation failed">>

\* C27. The declared artifacts are checked in their order, and the first
\* one that is absent gives FAILURE with exactly the declared artifacts
\* before it in the map, whatever status the script reported.
C27_FirstAbsentKeepsPreceding ==
    (Validated /\ Exited(0)
        /\ call.run.stdout \in {"success", "failure", "nostatus", "failure_message"}
        /\ ~(Declared \subseteq DOMAIN call.run.files)) =>
        LET expected == call.task.validation.artifacts
            n == CHOOSE k \in 1..Len(expected) :
                    /\ expected[k] \notin DOMAIN call.run.files
                    /\ \A m \in 1..(k - 1) : expected[m] \in DOMAIN call.run.files
        IN  /\ call.value.status = FAILURE
            /\ DOMAIN call.value.artifacts = {expected[k] : k \in 1..(n - 1)}

\* C28. A non-zero exit code of the script gives FAILURE with no
\* artifacts: stdout is not parsed and no declared artifact is looked up,
\* even when all are there and stdout reports success.
C28_NonZeroExitFails ==
    (Validated /\ ~call.run.raised /\ call.run.returncode # 0) =>
        /\ call.value.status = FAILURE
        /\ call.value.artifacts = NoFiles
        /\ ~call.parsed
        /\ call.looked_up = {}

C28_Witness ==
    /\ Validated
    /\ Exited(1)
    /\ call.run.stdout = "success"
    /\ Declared = {"test.txt", "metrics.json"}
    /\ Declared \subseteq DOMAIN call.run.files
    /\ call.value.status = FAILURE

C30_ArtifactsPerTask ==
    Validated =>
        /\ call.value.status = SUCCESS => Declared \subseteq DOMAIN call.own
        /\ (Exited(0) /\ call.run.stdout = "success"
                /\ Declared \subseteq DOMAIN call.own) =>
               call.value.status = SUCCESS

\* the tasks a status document shows in progress, as <<phase, task>>
InProgress(doc) ==
    {pt \in UNION {{<<p, t>> : t \in DOMAIN doc[p].tasks} : p \in DOMAIN doc} :
        doc[pt[1]].tasks[pt[2]] = IN_PROGRESS}

\* C33. In every reachable state, also after a crash and a new invocation
\* on the status file, at most one task of all phases is IN_PROGRESS, in
\* memory and in the status file.
C33_OneTaskInProgress ==
    /\ Cardinality(InProgress(status)) <= 1
    /\ disk.kind = "doc" => Cardinality(InProgress(disk.doc)) <= 1

\* C34. A diagnostic that exits zero leaves its blocker unresolved because
\* of stdout only when stdout is a document with a status field whose
\* value is not "success"; stdout that is structured data without status
\* field, or a value that is no object, does not by itself leave it
\* unresolved.
C34_OnlyBadStatusUnresolved ==
    (call.result = "returned" /\ call.blockers = <<DiagnosticsBlocker>>
        /\ ~call.diagnostics[1].raised /\ call.diagnostics[1].returncode = 0) =>
        /\ call.diagnostics[1].stdout = "failure" => call.unresolved = call.blockers
        /\ call.diagnostics[1].stdout \in {"nostatus", "nonobject"} =>
               call.unresolved = <<>>

\* the current task is inside its steps
InTask == pc \in {"blockers", "command", "validation", "complete"}

\* C35. Within a task the steps come in a fixed order: mark IN_PROGRESS and
\* persist, resolve the blockers, run the command, run the validation, set
\* the terminal status and persist.  The command is started only after all
\* blockers of the task were found resolved, the validation script only
\* after the command, if there is one, exited with code 0.
C35_StepsInOrder ==
    /\ [](InTask => (TaskStatus(status, i, j) = IN_PROGRESS /\ disk = Document(status)))
    /\ [][/\ (pc' = "blockers" /\ pc # "blockers") => pc = "task"
          /\ (pc' = "command" /\ pc # "command") =>
                 \/ pc = "task" /\ task'.blockers = <<>>
                 \/ pc = "blockers" /\ unresolved' = <<>>
          /\ (pc' = "validation" /\ pc # "validation") =>
                 \/ pc = "command" /\ ~proc'.raised /\ proc'.returncode = 0
                 \/ /\ ~task'.command
                    /\ \/ pc = "task" /\ task'.blockers = <<>>
                       \/ pc = "blockers" /\ unresolved' = <<>>
          /\ (pc' = "complete" /\ pc # "complete") =>
                 \/ pc = "validation" /\ ~proc'.raised /\ proc'.returncode = 0
                 \/ /\ ~task'.validation.present
                    /\ \/ pc = "command" /\ ~proc'.raised /\ proc'.returncode = 0
                       \/ /\ ~task'.command
                          /\ \/ pc = "task" /\ task'.blockers = <<>>
                             \/ pc = "blockers" /\ unresolved' = <<>>
          /\ (InTask /\ TaskStatus(status', i, j) \in Terminal) =>
                 /\ pc \in {"blockers", "command", "validation", "complete"}
                 /\ disk' = Document(status')
                 /\ (TaskStatus(status', i, j) = COMPLETED) <=> (pc = "complete")
         ]_vars

C35_Witness ==
    /\ pc = "validation"
    /\ task.blockers # <<>>
    /\ task.command
    /\ proc.kind = "command"
    /\ proc.returncode = 0
    /\ unresolved = <<>>

\* the tasks of a checklist, as <<phase, task>>
DeclaredTasks(phases) ==
    UNION {{<<p, t>> : t \in 1..phases[p]} : p \in 1..Len(phases)}

\* the tasks the first invocation left BLOCKED
BlockedTasks ==
    {a \in DeclaredTasks(current_checklist.phases) : TaskStatus(status, a[1], a[2]) = BLOCKED}

C37_PhaseGating ==
    /\ [](pc \in Executing =>
            \A q \in 1..(i - 1) : PhaseStatus(status, q) = COMPLETED)
    /\ [][/\ (pc' = "phase" /\ pc # "phase") =>
                 \/ pc = "loaded" /\ i' = 1
                 \/ pc = "gate" /\ i' = i + 1 /\ PhaseStatus(status', i) = COMPLETED
          /\ (pc = "phase" /\ pc' \in Executing) =>
                 /\ i' = i
                 /\ PhaseStatus(status', i) = IN_PROGRESS
          /\ (pc \in Executing /\ pc # "gate" /\ pc' \in Executing) => i' = i
         ]_vars

C37_Witness ==
    /\ pc = "task"
    /\ i = 2
    /\ PhaseStatus(status, 1) = COMPLETED
    /\ PhaseStatus(status, 2) = IN_PROGRESS

\* C38. When execute_checklist aborts because a task became FAILED, the
\* abort changes nothing else: the tasks after the failed one and the later
\* phases keep the statuses they had, and the phase of the failed task
\* stays IN_PROGRESS.
C38_AbortChangesNothingElse ==
    [][(pc \in {"command", "validation"} /\ pc' = "returned") =>
          /\ ret' = Return(1)
          /\ TaskStatus(status', i, j) = FAILED
          /\ PhaseStatus(status', i) = IN_PROGRESS
          /\ \A q \in Phases :
                 /\ PhaseStatus(status', q) = PhaseStatus(status, q)
                 /\ \A t \in TasksOf(q) :
                        (q # i \/ t # j) =>
                            TaskStatus(status', q, t) = TaskStatus(status, q, t)
          /\ DOMAIN status' = DOMAIN status
          /\ disk' = Document(status')
      ]_vars

C38_Witness ==
    /\ pc = "returned"
    /\ ret = Return(1)
    /\ i = 1
    /\ j = 1
    /\ Len(current_checklist.phases) = 2
    /\ TaskStatus(status, 1, 1) = FAILED
    /\ PhaseStatus(status, 1) = IN_PROGRESS
    /\ PhaseStatus(status, 2) = NOT_STARTED
    /\ TaskStatus(status, 2, 1) = NOT_STARTED
    /\ TasksOf(2) = {1}

\* C39. A load_checklist call that fails, because the checklist file is
\* missing or lacks the checklist or phases key, leaves the orchestrator as
\* it was: loaded checklist, status in memory and status-file target are
\* unchanged, so a later save writes the status of the checklist loaded
\* before to that checklist's own status file; on a fresh orchestrator
\* current_checklist stays None.
C39_FailedLoadChangesNothing ==
    [][/\ (call'.last.op = "load" /\ call'.last.raised) =>
             /\ call'.o.current_checklist = call.o.current_checklist
             /\ call'.o.status = call.o.status
             /\ call'.files = call.files
             /\ call.o.current_checklist.loaded =>
                    call'.o.checklist_name = call.o.checklist_name
             /\ call.o = Fresh => call'.o.current_checklist = None
       /\ (call'.last.op = "save" /\ call.o.current_checklist.loaded) =>
             call'.files = [call.files EXCEPT ![call.owner] = Document(call.o.status)]
      ]_vars

\* C40. When every external process returns, execute_checklist terminates
\* on every checklist: it starts each task at most once in an invocation
\* (the loops only move forward) and, unless the process is killed,
\* eventually returns 0 or 1.
C40_Terminates ==
    /\ [][/\ (pc' = "task" /\ pc # "task") =>
                 \/ pc = "phase" /\ i' = i /\ j' = 1
                 \/ pc \in {"blockers", "complete"} /\ i' = i /\ j' = j + 1
          /\ (pc = "task" /\ pc' \in Executing) => (pc' # "task" /\ i' = i /\ j' = j)
          /\ (pc' = "phase" /\ pc # "phase") =>
                 \/ pc = "loaded" /\ i' = 1
                 \/ pc = "gate" /\ i' = i + 1
         ]_vars
    /\ ([](pc # "killed")) => <>(pc = "returned" /\ ret \in {Return(0), Return(1)})

C40_Witness ==
    /\ pc = "returned"
    /\ ret = Return(0)
    /\ Len(current_checklist.phases) = 2
    /\ \A a \in DeclaredTasks(current_checklist.phases) :
           TaskStatus(status, a[1], a[2]) = COMPLETED
    /\ Cardinality(DeclaredTasks(current_checklist.phases)) = 2

\* the files of the directory older than the threshold
Expired == {n \in DOMAIN call.dir.files : call.dir.files[n] > call.max_age_days}

\* C31. cleanup(task_id, max_age_days) deletes exactly the files of the
\* task's artifact directory that are older than max_age_days days, leaves
\* the others in place and returns the number of files deleted; it returns
\* 0 without error when the directory does not exist.
C31_CleanupDeletesExpired ==
    call.result # "pending" =>
        /\ call.result = "returned"
        /\ call.count = Cardinality(Expired)
        /\ DOMAIN call.after.files = DOMAIN call.dir.files \ Expired
        /\ ~call.dir.exists => call.count = 0

\* the numeric fields of a metrics document (the artifact contents of this
\* model are letters and line ends: none of them has a numeric field)
NumericFields(text) == NoFiles

\* C32. Every ValidationResult of validate_task carries a metrics map: the
\* numeric fields of a metrics document among the collected artifacts, and
\* the empty map, with the status as it is, when none is collected.
C32_ResultCarriesMetrics ==
    call.result = "returned" =>
        /\ "metrics" \in DOMAIN call.value
        /\ "metrics.json" \notin DOMAIN call.value.artifacts =>
               call.value.metrics = NoFiles
        /\ "metrics.json" \in DOMAIN call.value.artifacts =>
               call.value.metrics = NumericFields(call.value.artifacts["metrics.json"])

====
